---------------------------- MODULE Spec2Model ----------------------------
(***************************************************************************)
(* The smokers problem of src/main.py: one agent thread, three smoker      *)
(* threads and the smoking sessions they start, synchronised by three      *)
(* counting semaphores (table_mutex, agent_sem, smoker_sem) around the     *)
(* fields of Table (ingredients, smoker_status, table_busy).               *)
(*                                                                         *)
(* Every statement of Table that touches a semaphore or a field is one     *)
(* step: a thread can be preempted between any two of them.  time.sleep    *)
(* and print are delays without effect on the state and are folded into    *)
(* the step that follows them.                                             *)
(***************************************************************************)
EXTENDS Naturals, Sequences, FiniteSets

\* The agent's loop is infinite and every cycle leaves one more permit in
\* smoker_sem; the model follows the first MaxPub publications of a run.
MaxPub == 2

\* main.py:28 (the three ingredient names, transliterated)
INGREDIENTS == <<"tabak", "bumaga", "spichki">>

\* Python's set(list)
set(list) == {list[i] : i \in DOMAIN list}

Smokers == set(INGREDIENTS)

\* Faulty variant of Samples: drawing with replacement (random.choices)
Samples_with_repeats ==
  {<<INGREDIENTS[i], INGREDIENTS[j]>> : i \in DOMAIN INGREDIENTS, j \in DOMAIN INGREDIENTS}

\* random.sample(INGREDIENTS, 2): the ordered pairs of two distinct entries
Samples ==
  LET positions == {p \in (DOMAIN INGREDIENTS) \X (DOMAIN INGREDIENTS) : p[1] # p[2]}
  IN  {<<INGREDIENTS[p[1]], INGREDIENTS[p[2]]>> : p \in positions}

VARIABLES
  table_mutex,    \* value of Table.table_mutex, Semaphore(1)
  agent_sem,      \* value of Table.agent_sem, Semaphore(1)
  smoker_sem,     \* value of Table.smoker_sem, Semaphore(0)
  ingredients,    \* Table.ingredients, a list
  smoker_status,  \* Table.smoker_status, ingredient -> bool
  table_busy,     \* Table.table_busy
  agent_pc,       \* where the agent thread is
  smoker_pc,      \* where each smoker thread is
  smoke,          \* smoking sessions: ingredient -> stage -> number of threads
  nPub,           \* history: pairs written to the table by the agent
  nSig,           \* history: place_ingredients calls that released smoker_sem
  nTake,          \* history: try_take calls that returned True, per smoker
  nFin,           \* history: finish_smoking calls completed, per smoker
  pub_takes       \* history: try_take calls that returned True on the current pair

vars ==
  <<table_mutex, agent_sem, smoker_sem, ingredients, smoker_status, table_busy,
    agent_pc, smoker_pc, smoke, nPub, nSig, nTake, nFin, pub_takes>>

shared == <<table_mutex, agent_sem, smoker_sem, ingredients, smoker_status, table_busy>>
history == <<nPub, nSig, nTake, nFin, pub_takes>>

\* Stages of a smoking session (smoke(), then finish_smoking)
Stages == {"fin_lock", "fin_clear", "fin_unlock", "fin_signal"}

\* Table.__init__ and the threads of main() at their first statement
Init ==
  /\ table_mutex = 1
  /\ agent_sem = 1
  /\ smoker_sem = 0
  /\ ingredients = <<>>
  /\ smoker_status = [k \in Smokers |-> FALSE]
  /\ table_busy = FALSE
  /\ agent_pc = "place_acquire"
  /\ smoker_pc = [k \in Smokers |-> "wait"]
  /\ smoke = [k \in Smokers |-> [s \in Stages |-> 0]]
  /\ nPub = 0
  /\ nSig = 0
  /\ nTake = [k \in Smokers |-> 0]
  /\ nFin = [k \in Smokers |-> 0]
  /\ pub_takes = 0

Sum3(f) == f[INGREDIENTS[1]] + f[INGREDIENTS[2]] + f[INGREDIENTS[3]]

-----------------------------------------------------------------------------
(* The agent: agent() and Table.place_ingredients                          *)

\* Faulty variant of place_acquire: the agent does not wait for the table-free permit
place_acquire_no_permit ==
  /\ agent_pc = "place_acquire"
  /\ nPub < MaxPub
  /\ agent_pc' = "place_lock"
  /\ UNCHANGED <<shared, smoker_pc, smoke, history>>

\* main.py:78, self.agent_sem.acquire()
place_acquire ==
  /\ agent_pc = "place_acquire"
  /\ nPub < MaxPub
  /\ agent_sem > 0
  /\ agent_sem' = agent_sem - 1
  /\ agent_pc' = "place_lock"
  /\ UNCHANGED <<table_mutex, smoker_sem, ingredients, smoker_status, table_busy,
                 smoker_pc, smoke, history>>

\* main.py:80, entering "with self.table_mutex"
place_lock ==
  /\ agent_pc = "place_lock"
  /\ table_mutex > 0
  /\ table_mutex' = table_mutex - 1
  /\ agent_pc' = "place_write"
  /\ UNCHANGED <<agent_sem, smoker_sem, ingredients, smoker_status, table_busy,
                 smoker_pc, smoke, history>>

\* main.py:81, self.ingredients = [first, second], with the (first, second) that
\* agent() drew at main.py:126; the draw is local to the agent, so it is made here
place_write ==
  /\ agent_pc = "place_write"
  /\ \E pair \in Samples : ingredients' = <<pair[1], pair[2]>>
  /\ agent_pc' = "place_busy"
  /\ nPub' = nPub + 1
  /\ pub_takes' = 0
  /\ UNCHANGED <<table_mutex, agent_sem, smoker_sem, smoker_status, table_busy,
                 smoker_pc, smoke, nSig, nTake, nFin>>

\* Faulty variant of place_busy: table_busy is not set
place_busy_skipped ==
  /\ agent_pc = "place_busy"
  /\ agent_pc' = "place_unlock"
  /\ UNCHANGED <<shared, smoker_pc, smoke, history>>

\* main.py:82, self.table_busy = True
place_busy ==
  /\ agent_pc = "place_busy"
  /\ table_busy' = TRUE
  /\ agent_pc' = "place_unlock"
  /\ UNCHANGED <<table_mutex, agent_sem, smoker_sem, ingredients, smoker_status,
                 smoker_pc, smoke, history>>

\* main.py:83, leaving "with self.table_mutex"
place_unlock ==
  /\ agent_pc = "place_unlock"
  /\ table_mutex' = table_mutex + 1
  /\ agent_pc' = "place_signal"
  /\ UNCHANGED <<agent_sem, smoker_sem, ingredients, smoker_status, table_busy,
                 smoker_pc, smoke, history>>

\* Faulty variant of place_signal: the agent forgets to release smoker_sem
place_signal_skipped ==
  /\ agent_pc = "place_signal"
  /\ agent_pc' = "place_acquire"
  /\ nSig' = nSig + 1
  /\ UNCHANGED <<shared, smoker_pc, smoke, nPub, nTake, nFin, pub_takes>>

\* Faulty variant of place_signal: smoker_sem is released twice
place_signal_twice ==
  /\ agent_pc = "place_signal"
  /\ smoker_sem' = smoker_sem + 2
  /\ agent_pc' = "place_acquire"
  /\ nSig' = nSig + 1
  /\ UNCHANGED <<table_mutex, agent_sem, ingredients, smoker_status, table_busy,
                 smoker_pc, smoke, nPub, nTake, nFin, pub_takes>>

\* main.py:85, self.smoker_sem.release(), then back to the top of the loop
place_signal ==
  /\ agent_pc = "place_signal"
  /\ smoker_sem' = smoker_sem + 1
  /\ agent_pc' = "place_acquire"
  /\ nSig' = nSig + 1
  /\ UNCHANGED <<table_mutex, agent_sem, ingredients, smoker_status, table_busy,
                 smoker_pc, smoke, nPub, nTake, nFin, pub_takes>>

agent ==
  \/ place_acquire
  \/ place_lock
  \/ place_write
  \/ place_busy
  \/ place_unlock
  \/ place_signal

-----------------------------------------------------------------------------
(* A smoker: smoker() and Table.try_take                                   *)

\* Faulty variant of wait: the smoker goes on without taking a permit
wait_no_acquire(k) ==
  /\ smoker_pc[k] = "wait"
  /\ smoker_pc' = [smoker_pc EXCEPT ![k] = "take_lock"]
  /\ UNCHANGED <<shared, agent_pc, smoke, history>>

\* main.py:147, table.smoker_sem.acquire()
wait(k) ==
  /\ smoker_pc[k] = "wait"
  /\ smoker_sem > 0
  /\ smoker_sem' = smoker_sem - 1
  /\ smoker_pc' = [smoker_pc EXCEPT ![k] = "take_lock"]
  /\ UNCHANGED <<table_mutex, agent_sem, ingredients, smoker_status, table_busy,
                 agent_pc, smoke, history>>

\* Faulty variant of take_lock: the body of try_take runs without table_mutex
take_lock_no_mutex(k) ==
  /\ smoker_pc[k] = "take_lock"
  /\ smoker_pc' = [smoker_pc EXCEPT ![k] = "take_check"]
  /\ UNCHANGED <<shared, agent_pc, smoke, history>>

\* main.py:93, entering "with self.table_mutex"
take_lock(k) ==
  /\ smoker_pc[k] = "take_lock"
  /\ table_mutex > 0
  /\ table_mutex' = table_mutex - 1
  /\ smoker_pc' = [smoker_pc EXCEPT ![k] = "take_check"]
  /\ UNCHANGED <<agent_sem, smoker_sem, ingredients, smoker_status, table_busy,
                 agent_pc, smoke, history>>

\* main.py:94, needed = set(INGREDIENTS) - {own_ingredient}
needed(own_ingredient) == set(INGREDIENTS) \ {own_ingredient}

\* Faulty variant of eligible: the table is not compared with needed
eligible_busy_only(own_ingredient) == ~smoker_status[own_ingredient]

\* Faulty variant of eligible: <= instead of == between the two sets
eligible_subset(own_ingredient) ==
  /\ set(ingredients) \subseteq needed(own_ingredient)
  /\ ~smoker_status[own_ingredient]

\* Faulty variant of eligible: smoker_status is not consulted
eligible_no_busy(own_ingredient) == set(ingredients) = needed(own_ingredient)

\* main.py:95-98, the condition of the if
eligible(own_ingredient) ==
  /\ set(ingredients) = needed(own_ingredient)
  /\ ~smoker_status[own_ingredient]

\* main.py:95-98, the test: into the body of the if, or past it
take_check(k) ==
  /\ smoker_pc[k] = "take_check"
  /\ smoker_pc' = [smoker_pc EXCEPT ![k] =
                     IF eligible(k) THEN "take_clear" ELSE "take_exit"]
  /\ UNCHANGED <<shared, agent_pc, smoke, history>>

\* Faulty variant of take_clear: the pair is left on the table
take_clear_skipped(k) ==
  /\ smoker_pc[k] = "take_clear"
  /\ smoker_pc' = [smoker_pc EXCEPT ![k] = "take_free"]
  /\ UNCHANGED <<shared, agent_pc, smoke, history>>

\* main.py:100, self.ingredients = []
take_clear(k) ==
  /\ smoker_pc[k] = "take_clear"
  /\ ingredients' = <<>>
  /\ smoker_pc' = [smoker_pc EXCEPT ![k] = "take_free"]
  /\ UNCHANGED <<table_mutex, agent_sem, smoker_sem, smoker_status, table_busy,
                 agent_pc, smoke, history>>

\* main.py:101, self.table_busy = False
take_free(k) ==
  /\ smoker_pc[k] = "take_free"
  /\ table_busy' = FALSE
  /\ smoker_pc' = [smoker_pc EXCEPT ![k] = "take_mark"]
  /\ UNCHANGED <<table_mutex, agent_sem, smoker_sem, ingredients, smoker_status,
                 agent_pc, smoke, history>>

\* main.py:102, self.smoker_status[own_ingredient] = True
take_mark(k) ==
  /\ smoker_pc[k] = "take_mark"
  /\ smoker_status' = [smoker_status EXCEPT ![k] = TRUE]
  /\ smoker_pc' = [smoker_pc EXCEPT ![k] = "take_release"]
  /\ UNCHANGED <<table_mutex, agent_sem, smoker_sem, ingredients, table_busy,
                 agent_pc, smoke, history>>

\* Faulty variant of take_release: a successful take does not release agent_sem
take_release_skipped(k) ==
  /\ smoker_pc[k] = "take_release"
  /\ smoker_pc' = [smoker_pc EXCEPT ![k] = "take_return"]
  /\ UNCHANGED <<shared, agent_pc, smoke, history>>

\* main.py:103, self.agent_sem.release()
take_release(k) ==
  /\ smoker_pc[k] = "take_release"
  /\ agent_sem' = agent_sem + 1
  /\ smoker_pc' = [smoker_pc EXCEPT ![k] = "take_return"]
  /\ UNCHANGED <<table_mutex, smoker_sem, ingredients, smoker_status, table_busy,
                 agent_pc, smoke, history>>

\* main.py:104, return True out of the with block: table_mutex is released
take_return(k) ==
  /\ smoker_pc[k] = "take_return"
  /\ table_mutex' = table_mutex + 1
  /\ smoker_pc' = [smoker_pc EXCEPT ![k] = "spawn"]
  /\ nTake' = [nTake EXCEPT ![k] = @ + 1]
  /\ pub_takes' = pub_takes + 1
  /\ UNCHANGED <<agent_sem, smoker_sem, ingredients, smoker_status, table_busy,
                 agent_pc, smoke, nPub, nSig, nFin>>

\* Faulty variant of take_exit: the table is cleared on the way out of a failed call
take_exit_clears(k) ==
  /\ smoker_pc[k] = "take_exit"
  /\ table_mutex' = table_mutex + 1
  /\ ingredients' = <<>>
  /\ table_busy' = FALSE
  /\ smoker_pc' = [smoker_pc EXCEPT ![k] = "handback"]
  /\ UNCHANGED <<agent_sem, smoker_sem, smoker_status,
                 agent_pc, smoke, nPub, nSig, nTake, nFin, pub_takes>>

\* main.py:93 and :105, the with block ends, table_mutex is released, return False
take_exit(k) ==
  /\ smoker_pc[k] = "take_exit"
  /\ table_mutex' = table_mutex + 1
  /\ smoker_pc' = [smoker_pc EXCEPT ![k] = "handback"]
  /\ UNCHANGED <<agent_sem, smoker_sem, ingredients, smoker_status, table_busy,
                 agent_pc, smoke, nPub, nSig, nTake, nFin, pub_takes>>

\* main.py:87-105
try_take(k) ==
  \/ take_lock(k)
  \/ take_check(k)
  \/ take_clear(k)
  \/ take_free(k)
  \/ take_mark(k)
  \/ take_release(k)
  \/ take_return(k)
  \/ take_exit(k)

\* Faulty variant of spawn: no thread is started after a successful take
spawn_skipped(k) ==
  /\ smoker_pc[k] = "spawn"
  /\ smoker_pc' = [smoker_pc EXCEPT ![k] = "wait"]
  /\ UNCHANGED <<shared, smoke, agent_pc, history>>

\* Faulty variant of spawn: two threads are started for one successful take
spawn_twice(k) ==
  /\ smoker_pc[k] = "spawn"
  /\ smoke' = [smoke EXCEPT ![k]["fin_lock"] = @ + 2]
  /\ smoker_pc' = [smoker_pc EXCEPT ![k] = "wait"]
  /\ UNCHANGED <<shared, agent_pc, history>>

\* main.py:149-150, try_take returned True: start the thread that runs smoke(),
\* then (main.py:156) sleep and go back to the top of the loop
spawn(k) ==
  /\ smoker_pc[k] = "spawn"
  /\ smoke' = [smoke EXCEPT ![k]["fin_lock"] = @ + 1]
  /\ smoker_pc' = [smoker_pc EXCEPT ![k] = "wait"]
  /\ UNCHANGED <<shared, agent_pc, history>>

\* Faulty variant of handback: the else branch does not release smoker_sem
handback_skipped(k) ==
  /\ smoker_pc[k] = "handback"
  /\ smoker_pc' = [smoker_pc EXCEPT ![k] = "wait"]
  /\ UNCHANGED <<shared, agent_pc, smoke, history>>

\* main.py:151-154, try_take returned False: table.smoker_sem.release(),
\* then (main.py:156) sleep and go back to the top of the loop
handback(k) ==
  /\ smoker_pc[k] = "handback"
  /\ smoker_sem' = smoker_sem + 1
  /\ smoker_pc' = [smoker_pc EXCEPT ![k] = "wait"]
  /\ UNCHANGED <<table_mutex, agent_sem, ingredients, smoker_status, table_busy,
                 agent_pc, smoke, history>>

\* main.py:131-156
smoker(k) ==
  \/ wait(k)
  \/ try_take(k)
  \/ spawn(k)
  \/ handback(k)

-----------------------------------------------------------------------------
(* A smoking session: smoke() and Table.finish_smoking                     *)

\* One session of smoker k moves from stage "from" to stage "to"
Move(k, from, to) == [smoke EXCEPT ![k][from] = @ - 1, ![k][to] = @ + 1]

\* main.py:142 and :114, the sleep is over and "with self.table_mutex" is entered
fin_lock(k) ==
  /\ smoke[k]["fin_lock"] > 0
  /\ table_mutex > 0
  /\ table_mutex' = table_mutex - 1
  /\ smoke' = Move(k, "fin_lock", "fin_clear")
  /\ UNCHANGED <<agent_sem, smoker_sem, ingredients, smoker_status, table_busy,
                 agent_pc, smoker_pc, history>>

\* Faulty variant of fin_clear: the smoker_status entry is left True
fin_clear_skipped(k) ==
  /\ smoke[k]["fin_clear"] > 0
  /\ smoke' = Move(k, "fin_clear", "fin_unlock")
  /\ UNCHANGED <<shared, agent_pc, smoker_pc, history>>

\* main.py:116, self.smoker_status[own_ingredient] = False
fin_clear(k) ==
  /\ smoke[k]["fin_clear"] > 0
  /\ smoker_status' = [smoker_status EXCEPT ![k] = FALSE]
  /\ smoke' = Move(k, "fin_clear", "fin_unlock")
  /\ UNCHANGED <<table_mutex, agent_sem, smoker_sem, ingredients, table_busy,
                 agent_pc, smoker_pc, history>>

\* main.py:116, leaving "with self.table_mutex"
fin_unlock(k) ==
  /\ smoke[k]["fin_unlock"] > 0
  /\ table_mutex' = table_mutex + 1
  /\ smoke' = Move(k, "fin_unlock", "fin_signal")
  /\ UNCHANGED <<agent_sem, smoker_sem, ingredients, smoker_status, table_busy,
                 agent_pc, smoker_pc, history>>

\* Faulty variant of fin_signal: the session releases agent_sem, not smoker_sem
fin_signal_wrong_sem(k) ==
  /\ smoke[k]["fin_signal"] > 0
  /\ agent_sem' = agent_sem + 1
  /\ smoke' = [smoke EXCEPT ![k]["fin_signal"] = @ - 1]
  /\ nFin' = [nFin EXCEPT ![k] = @ + 1]
  /\ UNCHANGED <<table_mutex, smoker_sem, ingredients, smoker_status, table_busy,
                 agent_pc, smoker_pc, nPub, nSig, nTake, pub_takes>>

\* main.py:117, self.smoker_sem.release(); the thread ends
fin_signal(k) ==
  /\ smoke[k]["fin_signal"] > 0
  /\ smoker_sem' = smoker_sem + 1
  /\ smoke' = [smoke EXCEPT ![k]["fin_signal"] = @ - 1]
  /\ nFin' = [nFin EXCEPT ![k] = @ + 1]
  /\ UNCHANGED <<table_mutex, agent_sem, ingredients, smoker_status, table_busy,
                 agent_pc, smoker_pc, nPub, nSig, nTake, pub_takes>>

\* main.py:107-117
finish_smoking(k) ==
  \/ fin_lock(k)
  \/ fin_clear(k)
  \/ fin_unlock(k)
  \/ fin_signal(k)

-----------------------------------------------------------------------------

Next ==
  \/ agent
  \/ \E k \in Smokers : smoker(k)
  \/ \E k \in Smokers : finish_smoking(k)

Spec == Init /\ [][Next]_vars

\* Every thread that can run keeps being scheduled; a thread waiting for a
\* semaphore gets it if the semaphore is free again and again.
Fairness ==
  /\ SF_vars(agent)
  /\ \A k \in Smokers : SF_vars(smoker(k))
  /\ \A k \in Smokers : SF_vars(fin_lock(k))
  /\ \A k \in Smokers : WF_vars(fin_clear(k))
  /\ \A k \in Smokers : WF_vars(fin_unlock(k))
  /\ \A k \in Smokers : WF_vars(fin_signal(k))

FairSpec == Spec /\ Fairness

-----------------------------------------------------------------------------
(* Derived quantities                                                      *)

\* The smokers whose smoker_status entry is True
Busy == {k \in Smokers : smoker_status[k]}

\* finish_smoking calls that have already cleared their smoker_status entry
Cleared ==
  Sum3(nFin) + Sum3([k \in Smokers |-> smoke[k]["fin_unlock"] + smoke[k]["fin_signal"]])

\* The agent is inside "with self.table_mutex" (main.py:80-83)
AgentIn == agent_pc \in {"place_write", "place_busy", "place_unlock"}

\* Smoker k is inside "with self.table_mutex" (main.py:93-104)
SmokerIn(k) ==
  smoker_pc[k] \in {"take_check", "take_clear", "take_free", "take_mark",
                    "take_release", "take_return", "take_exit"}

\* The sessions of smoker k inside "with self.table_mutex" (main.py:114-116)
SessionsIn(k) == smoke[k]["fin_clear"] + smoke[k]["fin_unlock"]

\* The number of threads inside a table_mutex critical section
InSection ==
  (IF AgentIn THEN 1 ELSE 0) + Cardinality({k \in Smokers : SmokerIn(k)})
    + Sum3([k \in Smokers |-> SessionsIn(k)])

\* The smokers that hold a permit of smoker_sem: past the acquire (main.py:147),
\* try_take not yet returned True, permit not yet released again (main.py:154)
Holding == {k \in Smokers : smoker_pc[k] \notin {"wait", "spawn"}}

\* The threads of smoker k that run smoke() (main.py:137-143), and those of
\* them that have not yet reset smoker_status[k] (main.py:116)
Sessions(k) ==
  smoke[k]["fin_lock"] + smoke[k]["fin_clear"] + smoke[k]["fin_unlock"]
    + smoke[k]["fin_signal"]
Unreset(k) == smoke[k]["fin_lock"] + smoke[k]["fin_clear"]

\* Takes and sessions of smoker k correspond one to one: each take that
\* returned True has a session that is about to start, is running or is over;
\* a session starts only at main.py:150, one at a time; a session that has not
\* reset smoker_status[k] sees it True, and only such a session resets it
SessionPerTake ==
  /\ [](\A k \in Smokers :
          /\ nTake[k] = nFin[k] + Sessions(k) + (IF smoker_pc[k] = "spawn" THEN 1 ELSE 0)
          /\ Unreset(k) > 0 => smoker_status[k])
  /\ [][\A k \in Smokers :
          /\ Sessions(k)' > Sessions(k) =>
                /\ Sessions(k)' = Sessions(k) + 1
                /\ smoker_pc[k] = "spawn" /\ smoker_pc'[k] = "wait"
          /\ (smoker_status[k] /\ ~smoker_status'[k]) =>
                /\ smoke[k]["fin_clear"] > 0
                /\ Unreset(k)' = Unreset(k) - 1
          /\ nFin'[k] # nFin[k] =>
                /\ nFin'[k] = nFin[k] + 1
                /\ Sessions(k)' = Sessions(k) - 1]_vars

\* The permits of smoker_sem in existence: in the semaphore or held by a smoker
Permits == smoker_sem + Cardinality(Holding)

\* Smoker k changes its position in this step
Steps(k) == smoker_pc'[k] # smoker_pc[k]

-----------------------------------------------------------------------------
(* C1 as stated: at most one entry of smoker_status is true in every       *)
(* reachable state.                                                        *)
C1_AtMostOneBusy == Cardinality(Busy) <= 1

(* C1, amended: every true entry of smoker_status comes from a pair of its *)
(* own: the number of true entries plus the number of entries already      *)
(* cleared by finish_smoking never exceeds the number of pairs the agent   *)
(* has placed.  Smokers that took different pairs are busy together.       *)
C1_OneBusyPerPair == Cardinality(Busy) + Cleared <= nPub

C1_Witness == Cardinality(Busy) >= 2

(* C2: the agent writes a pair only onto an empty table and only after     *)
(* every pair written before has been taken by a successful try_take;      *)
(* while a pair lies on the table the table-free permit is gone, so the    *)
(* next place_ingredients call cannot pass agent_sem.acquire().            *)
C2_SingleInFlight ==
  /\ agent_pc \in {"place_lock", "place_write"} => ingredients = <<>>
  /\ agent_pc = "place_write" => Sum3(nTake) = nPub
  /\ ingredients # <<>> => agent_sem = 0

C2_Witness == agent_pc = "place_write" /\ nPub >= 1

(* C3: the test of try_take(k) sends the call into the taking branch       *)
(* (return True) exactly when the table holds the two ingredients other    *)
(* than k and smoker_status[k] is False; a smoker whose own ingredient is  *)
(* on the table never takes.                                               *)
C3_Eligibility ==
  [][\A k \in Smokers :
       (smoker_pc[k] = "take_check" /\ Steps(k)) =>
         /\ (smoker_pc'[k] = "take_clear") <=>
              (/\ Len(ingredients) = 2
               /\ {ingredients[1], ingredients[2]} = Smokers \ {k}
               /\ smoker_status[k] = FALSE)
         /\ (smoker_pc'[k] = "take_exit") <=> (smoker_pc'[k] # "take_clear")
         /\ (\E i \in DOMAIN ingredients : ingredients[i] = k) =>
              smoker_pc'[k] = "take_exit"]_vars

C3_Witness ==
  \E k \in Smokers :
    /\ smoker_pc[k] = "handback"
    /\ k \in set(ingredients)
    /\ Sum3(nTake) >= 1

(* C4: no pair placed by the agent is taken twice: at most one try_take    *)
(* call returns True between one write of the agent and the next.          *)
C4_OneTakePerPair == pub_takes <= 1

C4_Witness ==
  \E k \in Smokers :
    pub_takes = 1 /\ nPub >= 2 /\ smoker_pc[k] = "handback"

C6_HandBack ==
  [][\A k \in Smokers :
       Steps(k) =>
         /\ smoker_pc[k] = "wait" => smoker_sem' = smoker_sem - 1
         /\ smoker_pc[k] \in {"take_lock", "take_check", "take_exit"} =>
              smoker_sem' = smoker_sem
         /\ smoker_pc[k] = "take_exit" => smoker_pc'[k] = "handback"
         /\ smoker_pc[k] = "handback" =>
              smoker_sem' = smoker_sem + 1 /\ smoker_pc'[k] = "wait"]_vars

C6_Witness ==
  \E k \in Smokers :
    /\ smoker_pc[k] = "handback"
    /\ smoker_sem = 0
    /\ ingredients # <<>>
    /\ k \notin set(ingredients)

(* C7: while smoker_status[k] is True the test of try_take(k) fails,       *)
(* whatever lies on the table.                                             *)
C7_BusyGuard ==
  [][\A k \in Smokers :
       (smoker_pc[k] = "take_check" /\ Steps(k) /\ smoker_status[k]) =>
         smoker_pc'[k] = "take_exit"]_vars

C7_Witness ==
  \E k \in Smokers :
    /\ smoker_status[k]
    /\ smoker_pc[k] = "handback"
    /\ Len(ingredients) = 2
    /\ {ingredients[1], ingredients[2]} = Smokers \ {k}

(* C8: once a finish_smoking(k) call has completed, a pair that is the     *)
(* complement of {k} is, under fair scheduling, eventually taken by a      *)
(* try_take(k) call that returns True.                                     *)
C8_ReEligible ==
  \A k \in Smokers :
    (nFin[k] >= 1 /\ set(ingredients) = Smokers \ {k}) ~> (smoker_pc[k] = "take_return")

C8_Witness ==
  \E k \in Smokers : nFin[k] >= 1 /\ nTake[k] >= 2 /\ smoker_pc[k] = "spawn"

(* C9: the steps of a try_take call that returns False leave ingredients,  *)
(* table_busy, smoker_status and agent_sem as they were.                   *)
C9_FailedTakeFrame ==
  [][\A k \in Smokers :
       (/\ Steps(k)
        /\ smoker_pc[k] \in {"take_lock", "take_check", "take_exit"}
        /\ smoker_pc'[k] \in {"take_check", "take_exit", "handback"}) =>
         UNCHANGED <<ingredients, table_busy, smoker_status, agent_sem>>]_vars

C9_Witness ==
  \E k \in Smokers :
    smoker_pc[k] = "handback" /\ ingredients # <<>> /\ table_busy

(* C10: in every state, inside the critical sections too, the table holds  *)
(* nothing or exactly two different ingredients of the three.              *)
C10_WellFormed ==
  \/ ingredients = <<>>
  \/ /\ Len(ingredients) = 2
     /\ ingredients[1] \in Smokers
     /\ ingredients[2] \in Smokers
     /\ ingredients[1] # ingredients[2]

C10_Witness == agent_pc = "place_busy" /\ ingredients # <<>> /\ ~table_busy

(* C11: a place_ingredients call changes smoker_sem in one step only, its   *)
(* last, and by exactly one permit; that step comes after the pair has     *)
(* been written and table_mutex has been given back, so the releases never *)
(* outnumber the pairs written and lag behind them by one at most.         *)
C11_OnePermitPerPlace ==
  /\ [](/\ nSig <= nPub
        /\ nPub <= nSig + 1
        /\ (agent_pc \in {"place_busy", "place_unlock", "place_signal"}) <=> (nPub = nSig + 1))
  /\ [][agent_pc' # agent_pc =>
          /\ smoker_sem' = smoker_sem + (IF agent_pc = "place_signal" THEN 1 ELSE 0)
          /\ nSig' = nSig + (IF agent_pc = "place_signal" THEN 1 ELSE 0)
          /\ agent_pc = "place_signal" => agent_pc' = "place_acquire"]_vars

C11_Witness ==
  agent_pc = "place_acquire" /\ nSig = 1 /\ nPub = 1 /\ smoker_sem = 1 /\ ingredients # <<>>

(* C12: at most one thread is inside a table_mutex critical section, and   *)
(* table_mutex is 0 exactly then; every step that changes ingredients,     *)
(* table_busy or smoker_status, and the test of try_take that reads them,  *)
(* is a step of the thread inside the section.                             *)
C12_GuardedState ==
  /\ [](InSection <= 1 /\ table_mutex + InSection = 1)
  /\ [][/\ <<ingredients, table_busy, smoker_status>>' # <<ingredients, table_busy, smoker_status>> =>
            /\ table_mutex = 0
            /\ table_mutex' = 0
            /\ \/ AgentIn /\ agent_pc' # agent_pc
               \/ \E k \in Smokers : SmokerIn(k) /\ Steps(k)
               \/ \E k \in Smokers : smoke[k]["fin_clear"] > 0 /\ smoke'[k] # smoke[k]
        /\ \A k \in Smokers :
             (smoker_pc[k] = "take_check" /\ Steps(k)) => (table_mutex = 0 /\ InSection = 1)]_vars

C12_Witness ==
  /\ agent_pc = "place_lock"
  /\ table_mutex = 0
  /\ \E k \in Smokers : smoker_pc[k] = "take_return"

(* C13: whenever a pair lies on the table and the place_ingredients call   *)
(* that wrote it has returned, a permit exists: smoker_sem is positive or  *)
(* some smoker holds a permit it has acquired; so the three smokers are    *)
(* never all waiting on an empty smoker_sem while a pair is waiting.       *)
C13_PermitForPair ==
  (ingredients # <<>> /\ agent_pc = "place_acquire") =>
    /\ smoker_sem + Cardinality(Holding) >= 1
    /\ (\A k \in Smokers : smoker_pc[k] = "wait") => smoker_sem >= 1

C13_Witness ==
  /\ ingredients # <<>>
  /\ agent_pc = "place_acquire"
  /\ smoker_sem = 0
  /\ Cardinality(Holding) = 1
  /\ \E k \in Holding : smoker_status[k] /\ smoker_pc[k] = "take_lock"

(* C14: agent_sem starts at 1 and smoker_sem at 0; agent_sem is always 0   *)
(* or 1; it is 0 whenever a pair lies on the table; and the only step that *)
(* raises it is the release inside a try_take that goes on to return True. *)
C14_BinaryTablePermit ==
  /\ agent_sem = 1 /\ smoker_sem = 0
  /\ [](/\ agent_sem \in {0, 1}
        /\ ingredients # <<>> => agent_sem = 0)
  /\ [][agent_sem' > agent_sem =>
          /\ agent_sem' = agent_sem + 1
          /\ \E k \in Smokers :
               /\ smoker_pc[k] = "take_release"
               /\ smoker_pc'[k] = "take_return"
               /\ smoker_status[k]
               /\ ingredients = <<>>]_vars

C14_Witness ==
  /\ agent_sem = 1
  /\ nPub >= 1
  /\ ingredients = <<>>
  /\ agent_pc = "place_acquire"
  /\ \E k \in Smokers : smoker_pc[k] = "take_return"

(* C15, as stated: each successful try_take(k) starts exactly one session,  *)
(* the session calls finish_smoking(k) exactly once and only while         *)
(* smoker_status[k] is True, and smoker k never has two sessions at once.  *)
(* A session that has reset smoker_status[k] and left table_mutex but has  *)
(* not yet released smoker_sem (main.py:117) can overlap with the next     *)
(* session of the same smoker.                                             *)
C15_OneSessionInFlight ==
  /\ SessionPerTake
  /\ [](\A k \in Smokers : Sessions(k) <= 1)

(* C15, amended: each successful try_take(k) starts exactly one session,   *)
(* the session calls finish_smoking(k) exactly once and only while         *)
(* smoker_status[k] is True, and smoker k never has two sessions that have *)
(* not yet reset smoker_status[k].                                         *)
C15_OneUnresetSession ==
  /\ SessionPerTake
  /\ [](\A k \in Smokers :
          Unreset(k) + (IF smoker_pc[k] = "spawn" THEN 1 ELSE 0) <= 1)

C15_Witness ==
  \E k \in Smokers :
    /\ smoke[k]["fin_signal"] = 1
    /\ smoke[k]["fin_lock"] = 1
    /\ smoker_status[k]
    /\ nTake[k] = 2

(* C16: when the sessions are scheduled fairly, every smoker whose          *)
(* smoker_status entry is True has it set back to False later on: no       *)
(* smoker stays busy forever.                                              *)
C16_SmokingEnds ==
  \A k \in Smokers : smoker_status[k] ~> ~smoker_status[k]

C16_Witness ==
  \E k \in Smokers :
    /\ nTake[k] >= 1
    /\ ~smoker_status[k]
    /\ smoke[k]["fin_unlock"] = 1
    /\ nFin[k] = 0

(* C17: some step is possible in every reachable state; with the agent,    *)
(* the smokers and the sessions scheduled fairly the agent goes on to      *)
(* place every pair it is allowed to (MaxPub of them); and a pair placed   *)
(* for a smoker that is smoking is taken, so that agent_sem is released.   *)
C17_AgentProgress ==
  /\ [](ENABLED Next)
  /\ (nPub < MaxPub) ~> (nPub = MaxPub)
  /\ (\E k \in Smokers : smoker_status[k] /\ set(ingredients) = needed(k))
       ~> (agent_sem = 1)

C17_Witness ==
  \E k \in Smokers :
    /\ smoker_status[k]
    /\ Unreset(k) = 1
    /\ set(ingredients) = needed(k)
    /\ agent_pc = "place_acquire"
    /\ agent_sem = 0

(* C18: the permits in smoker_sem plus the permits held by smokers (taken  *)
(* by acquire, not used up by a successful try_take, not handed back) are  *)
(* the releases of place_ingredients plus the releases of finish_smoking   *)
(* minus the successful takes; a permit appears only with a release of     *)
(* place_ingredients or finish_smoking and disappears only when a try_take *)
(* returns True.                                                           *)
C18_PermitConservation ==
  /\ [](Permits + Sum3(nTake) = nSig + Sum3(nFin))
  /\ [][/\ Permits' > Permits =>
             /\ Permits' = Permits + 1
             /\ \/ agent_pc = "place_signal" /\ agent_pc' = "place_acquire"
                \/ \E k \in Smokers : smoke[k]["fin_signal"] > 0 /\ nFin'[k] = nFin[k] + 1
        /\ Permits' < Permits =>
             /\ Permits' = Permits - 1
             /\ \E k \in Smokers :
                  /\ smoker_pc[k] = "take_return" /\ smoker_pc'[k] = "spawn"
                  /\ nTake'[k] = nTake[k] + 1]_vars

C18_Witness ==
  /\ smoker_sem >= 1
  /\ Cardinality(Holding) >= 1
  /\ Sum3(nFin) >= 1
  /\ Sum3(nTake) >= 2
  /\ nSig = 2

(* C19: whenever no thread holds table_mutex, table_busy is True exactly    *)
(* when the ingredients list is not empty.                                 *)
C19_BusyAgreesWithContents ==
  table_mutex = 1 => (table_busy <=> ingredients # <<>>)

C19_Witness ==
  /\ table_mutex = 1
  /\ table_busy
  /\ ingredients # <<>>
  /\ agent_pc = "place_signal"
  /\ nPub = 2

=============================================================================
